---- MODULE Spec2Model ----
(***************************************************************************)
(* Model of the program runner of the coding agent: code_runner.py         *)
(* (execute_python_code, run_web_server, run_main_web_app,                 *)
(* run_main_as_console_app), web_utils.py (output reader thread, port      *)
(* probe, process-tree terminator) and agent.run_project.                  *)
(*                                                                         *)
(* The supervisor is one sequential thread whose position is pc.  The      *)
(* spawned process tree, the listening ports and the output reader thread  *)
(* run concurrently with it and are separate actions.                      *)
(***************************************************************************)
EXTENDS Integers, Sequences, FiniteSets, TLC

(* ---- bounds of the model ---- *)
MaxLines == 2        \* lines the process tree writes to its merged output
MaxErr == 1          \* chunks the console child writes to its stderr sink
MaxTimeout == 1      \* largest run_timeout tried (0 stands for None / 0)
MaxSleep == 2        \* a sleep lasts its nominal tick or oversleeps up to this
MaxElapsed == 3      \* the clock is not advanced past this
MaxWaitIters == 2    \* iterations of the port-probe loop before max_wait is reached
MaxOpen == 2         \* candidate ports that get opened during one run
MaxWait == 15        \* largest max_wait (seconds) given to the port-probe loop
MaxFixes == 2        \* calls of error_project followed in one session of main1

(* ---- program constants ---- *)
CrashMarker == "Traceback (most recent call last)"
default_ports == <<5000, 8000, 8080, 3000, 8501>>
NoneRC == -1         \* returncode None
NoUrl == <<>>        \* server_url None
Url(p) == <<"http://", "127.0.0.1", p>>     \* f"http://127.0.0.1:{p}"
UrlPort(u) == u[3]

Procs == {"root", "c1", "c2"}
\* c1 is a descendant of the spawned process
Parent(p) == "root"
Lines == {"ok", CrashMarker, "bad"}   \* "bad": a line that is not valid UTF-8
ErrChunks == {"txt", "bad"}     \* "bad": bytes that are not valid UTF-8
PortSet == {default_ports[i] : i \in 1..Len(default_ports)}

VARIABLES
  mode,            \* "console" | "web" | "exec": which run call is made
  fileExists,      \* the entry file exists
  dirExists,       \* the directory of the entry file exists
  run_timeout,     \* 0 stands for None (falsy)
  lineBudget,      \* lines the process tree writes in this run
  mayOpen,         \* candidate ports the environment may open in this run
  pc,              \* position of the supervisor thread
  status,          \* per process: "absent" (never started in this run) | "unborn" |
                   \* "alive" | "exited" | "killed"
  returncode,      \* exit code of the spawned process, NoneRC while running
  spawned,         \* number of child processes spawned by Popen
  pipe,            \* lines written to the merged output pipe, not yet read
  output_lines,    \* the list the reader thread appends to
  mon,             \* reader thread: "none" | "running" | "stopped" | "crashed"
  err_file,        \* chunks in the temporary stderr sink (console mode)
  openPorts,       \* candidate ports that accept connections
  waited,          \* iterations slept in the port-probe loop
  pidx,            \* index into default_ports of the probe in progress
  foundOpen,       \* ports found open by the probes of the current iteration
  server_url,      \* NoUrl or the URL of the candidate found open
  last_len,        \* cursor of the service poll loop
  new_lines,       \* the batch drained in the current cycle
  drained,         \* concatenation of every batch drained so far
  elapsed,         \* time.time() - start_time
  result_container,
  web_ret,         \* return value of run_main_web_app: "none" | "True" | "False"
  outcome,         \* the branch through which the run call returned
  kret,            \* where _kill_process_tree returns to
  ksnap,           \* children enumerated by _kill_process_tree, not yet signalled
  atKill,          \* the processes running when _kill_process_tree was last entered
  afterKill,       \* status of the processes when _kill_process_tree last returned
  rerun,           \* the current call started in the state the previous call left
  touched,         \* <<thread, object, kind of access>> made so far in a service run
  foreign,         \* candidate ports on which a process outside the tree listens
  wait_loop,       \* run_web_server's loop with its float arithmetic: waited, max_wait, ...
  main_loop,       \* main1/main2: position, error_message, the project result in hand
  intry,           \* the supervisor is inside the try block of run_main_web_app
  cancelled,       \* a KeyboardInterrupt has been delivered
  console_result,
  exec_result,
  rp_result,       \* result of run_project
  exitAt           \* value of elapsed when the spawned process exited, -1 before

runVars == <<mode, fileExists, dirExists, run_timeout, lineBudget, mayOpen, pc, status, returncode,
          spawned, pipe, output_lines, mon, err_file, openPorts, waited, pidx,
          foundOpen, server_url, last_len, new_lines, drained, elapsed,
          result_container, web_ret, outcome, kret, ksnap, atKill, afterKill,
          rerun, intry, cancelled, console_result, exec_result, rp_result, exitAt,
          touched, foreign>>
vars == <<runVars, wait_loop, main_loop>>

envVars == <<status, returncode, pipe, err_file, openPorts, exitAt>>
monVars == <<output_lines, mon>>
supVars == <<mode, fileExists, dirExists, run_timeout, lineBudget, mayOpen, pc, spawned, waited, pidx,
             foundOpen, server_url, last_len, new_lines, drained, elapsed,
             result_container, web_ret, outcome, kret, ksnap, atKill, afterKill,
             rerun, intry, cancelled, console_result, exec_result, rp_result>>

NoError == [kind |-> "none", msg |-> "", tail |-> <<>>]
Msg(m) == [kind |-> "msg", msg |-> m, tail |-> <<>>]
TailErr(t) == [kind |-> "tail", msg |-> "", tail |-> t]
NoResult == [set |-> FALSE, success |-> FALSE, returncode |-> NoneRC,
             error |-> "", stderr |-> <<>>]
\* result_container["server_output"] holds either a reference to the list the
\* reader thread appends to, or lines of its own.
NoOutput == [live |-> FALSE, lines |-> <<>>]
\* a snapshot of the list taken when the container is filled
ServerOutputCopy == [live |-> FALSE, lines |-> output_lines]
\* line 115: the container is given the very list object of run_web_server
ServerOutputRef == [live |-> TRUE, lines |-> <<>>]
\* what a reader of result_container["server_output"] sees
ServerOutput(c) == IF c.server_output.live THEN output_lines ELSE c.server_output.lines

\* ---- the float arithmetic of run_web_server's loop (waited += poll) ----
\* A Python float between 0 and 32 is written as the number of units of 2^-55
\* it holds, in four limbs of 15 bits, least significant first.
LimbBase == 32768
Mantissa == 53
\* line 82: waited = 0
DZero == <<0, 0, 0, 0>>
\* line 82: poll = 0.2, the double 0x1.999999999999ap-3
poll == <<6554, 13107, 26214, 204>>
\* an integer number of seconds n: n * 2^55 = (n * 2^10) * 2^45
DOfInt(n) == <<0, 0, 0, n * 1024>>

RECURSIVE Pow2(_)
Pow2(n) == IF n = 0 THEN 1 ELSE 2 * Pow2(n - 1)
RECURSIVE BitLen(_)
BitLen(n) == IF n = 0 THEN 0 ELSE 1 + BitLen(n \div 2)
\* the exact sum of two limb numbers
DAddExact(a, b) ==
  LET s1 == a[1] + b[1]
      s2 == a[2] + b[2] + (s1 \div LimbBase)
      s3 == a[3] + b[3] + (s2 \div LimbBase)
      s4 == a[4] + b[4] + (s3 \div LimbBase)
  IN  <<s1 % LimbBase, s2 % LimbBase, s3 % LimbBase, s4>>
\* position of the leading bit
DBits(a) ==
  IF a[4] # 0 THEN 45 + BitLen(a[4])
  ELSE IF a[3] # 0 THEN 30 + BitLen(a[3])
  ELSE IF a[2] # 0 THEN 15 + BitLen(a[2])
  ELSE BitLen(a[1])
\* round to nearest, ties to even, to a mantissa of 53 bits
DRound(a) ==
  LET d == DBits(a) - Mantissa
  IN  IF d <= 0 THEN a
      ELSE LET m == Pow2(d)
               r == a[1] % m
               odd == (a[1] \div m) % 2 = 1
               up == 2 * r > m \/ (2 * r = m /\ odd)
               low == <<a[1] - r, a[2], a[3], a[4]>>
           IN  IF up THEN DAddExact(low, <<m, 0, 0, 0>>) ELSE low
\* line 98: waited + poll as the float addition computes it
DAdd(a, b) == DRound(DAddExact(a, b))
\* line 85: a < b
DLess(a, b) ==
  \/ a[4] < b[4]
  \/ a[4] = b[4] /\ a[3] < b[3]
  \/ a[4] = b[4] /\ a[3] = b[3] /\ a[2] < b[2]
  \/ a[4] = b[4] /\ a[3] = b[3] /\ a[2] = b[2] /\ a[1] < b[1]

\* the loop on entry (line 82) when called with max_wait = mw seconds
WaitStart(mw) == [waited |-> DZero, max_wait |-> mw, iters |-> 0, outcome |-> "none"]
\* line 73: the default max_wait
max_wait_default == 15

\* main1 / main2 before the first generation (main.py lines 4-6, 72-74)
MainStart == [pc |-> "generate", error_message |-> "", result |-> "none",
              fixes |-> 0, runs |-> 0]

NoContainer == [has_process |-> FALSE, server_url |-> NoUrl, server_error |-> NoError,
                server_output |-> NoOutput]

\* The state before the run call; m is the call that is made, and the
\* program run may write up to lb lines and open ports of the set ports; the
\* caller passes a run_timeout of the set timeouts.
InitRun(m, lb, ports, timeouts, held, kids) ==
  /\ mode = m
  /\ lineBudget = lb
  /\ mayOpen = ports
  /\ fileExists \in BOOLEAN
  /\ dirExists \in BOOLEAN
  /\ fileExists => dirExists
  /\ run_timeout \in timeouts
  /\ pc = "start"
  /\ status = [p \in Procs |-> IF p \in kids \cup {"root"} THEN "unborn" ELSE "absent"]
  /\ returncode = NoneRC
  /\ spawned = 0
  /\ pipe = <<>>
  /\ output_lines = <<>>
  /\ mon = "none"
  /\ err_file = <<>>
  /\ foreign \in SUBSET held
  /\ openPorts = foreign
  /\ waited = 0
  /\ pidx = 1
  /\ foundOpen = {}
  /\ server_url = NoUrl
  /\ last_len = 0
  /\ new_lines = <<>>
  /\ drained = <<>>
  /\ elapsed = 0
  /\ result_container = NoContainer
  /\ web_ret = "none"
  /\ outcome = "none"
  /\ kret = "none"
  /\ ksnap = <<>>
  /\ atKill = {}
  /\ afterKill = [p \in Procs |-> "none"]
  /\ rerun = FALSE
  /\ touched = {}
  /\ main_loop = MainStart
  /\ wait_loop \in {WaitStart(mw) : mw \in IF m = "wait" THEN 1..MaxWait
                                                       ELSE {max_wait_default}}
  /\ intry = FALSE
  /\ cancelled = FALSE
  /\ console_result = NoResult
  /\ exec_result = NoResult
  /\ rp_result = NoResult
  /\ exitAt = -1

Alive(p) == status[p] = "alive"
AnyAlive == \E p \in Procs : Alive(p)

(* ======================= the spawned process tree ======================= *)

\* A process of the tree exits by itself; the spawned process leaves an exit
\* code.  A child of an interpreter that cannot open its entry file exits 2.
ProcExit(p, code) ==
  /\ Alive(p)
  /\ (p = "root" /\ ~fileExists) => code = 2
  /\ status' = [status EXCEPT ![p] = "exited"]
  /\ returncode' = IF p = "root" THEN code ELSE returncode
  /\ exitAt' = IF p = "root" THEN elapsed ELSE exitAt
  /\ UNCHANGED <<pipe, err_file, openPorts>>
  /\ UNCHANGED monVars
  /\ UNCHANGED supVars
  /\ UNCHANGED touched
  /\ UNCHANGED foreign
  /\ UNCHANGED wait_loop
  /\ UNCHANGED main_loop

\* A running program of the tree starts a child process.
SpawnChild(c) ==
  /\ c # "root"
  /\ fileExists
  /\ status[c] = "unborn"
  /\ Alive(Parent(c))
  /\ status' = [status EXCEPT ![c] = "alive"]
  /\ UNCHANGED <<returncode, pipe, err_file, openPorts, exitAt>>
  /\ UNCHANGED monVars
  /\ UNCHANGED supVars
  /\ UNCHANGED touched
  /\ UNCHANGED foreign
  /\ UNCHANGED wait_loop
  /\ UNCHANGED main_loop

\* A process of the tree writes a line to the merged stdout/stderr pipe
\* (service mode: _start_web_process wires both into one pipe).
WriteLine(l) ==
  /\ mode = "web"
  /\ fileExists
  /\ AnyAlive
  /\ Len(pipe) + Len(output_lines) < lineBudget
  /\ pipe' = Append(pipe, l)
  /\ UNCHANGED <<status, returncode, err_file, openPorts, exitAt>>
  /\ UNCHANGED monVars
  /\ UNCHANGED supVars
  /\ UNCHANGED touched
  /\ UNCHANGED foreign
  /\ UNCHANGED wait_loop
  /\ UNCHANGED main_loop

\* The console child writes to its stderr, which is the temporary file.
WriteErr(c) ==
  /\ mode = "console"
  /\ AnyAlive
  /\ Len(err_file) < MaxErr
  /\ err_file' = Append(err_file, c)
  /\ UNCHANGED <<status, returncode, pipe, openPorts, exitAt>>
  /\ UNCHANGED monVars
  /\ UNCHANGED supVars
  /\ UNCHANGED touched
  /\ UNCHANGED foreign
  /\ UNCHANGED wait_loop
  /\ UNCHANGED main_loop

\* A candidate port starts accepting connections.
OpenPort(p) ==
  /\ mode = "web"
  /\ pc \in {"w_poll", "w_probe", "w_sleep"}
  /\ p \in mayOpen
  /\ p \notin openPorts
  /\ Cardinality(openPorts) < MaxOpen
  /\ openPorts' = openPorts \cup {p}
  /\ UNCHANGED <<status, returncode, pipe, err_file, exitAt>>
  /\ UNCHANGED monVars
  /\ UNCHANGED supVars
  /\ UNCHANGED touched
  /\ UNCHANGED foreign
  /\ UNCHANGED wait_loop
  /\ UNCHANGED main_loop

(* ========================= the output reader thread ===================== *)

\* read_output: readline returned a line; it is appended to output_lines.
\* The pipe is decoded as UTF-8 with strict errors: on a line that is no UTF-8
\* readline raises UnicodeDecodeError and the thread ends with it.
MonRead ==
  /\ mon = "running"
  /\ pipe # <<>>
  /\ IF Head(pipe) = "bad"
       THEN /\ mon' = "crashed"
            /\ UNCHANGED output_lines
       ELSE /\ output_lines' = Append(output_lines, Head(pipe))
            /\ UNCHANGED mon
  /\ pipe' = Tail(pipe)
  /\ UNCHANGED <<status, returncode, err_file, openPorts, exitAt>>
  /\ UNCHANGED supVars
  /\ touched' = touched \cup
       (IF Head(pipe) = "bad" THEN {<<"monitor", "stdout", "r">>}
        ELSE {<<"monitor", "stdout", "r">>, <<"monitor", "output_lines", "w">>,
              <<"monitor", "console", "w">>})
  /\ UNCHANGED foreign
  /\ UNCHANGED wait_loop
  /\ UNCHANGED main_loop

\* read_output: readline returned end-of-stream (every holder of the write end
\* is gone) and process.poll() is not None: the loop ends.
MonStop ==
  /\ mon = "running"
  /\ pipe = <<>>
  /\ ~AnyAlive
  /\ mon' = "stopped"
  /\ UNCHANGED output_lines
  /\ UNCHANGED envVars
  /\ UNCHANGED supVars
  /\ touched' = touched \cup {<<"monitor", "stdout", "r">>, <<"monitor", "process", "poll">>}
  /\ UNCHANGED foreign
  /\ UNCHANGED wait_loop
  /\ UNCHANGED main_loop

(* ===================== web_utils._kill_process_tree ===================== *)
TermRC == -15        \* returncode of a process ended by the terminate signal
KillRC == -9         \* returncode of a process ended by kill()

\* parent.children(recursive=True): the living descendants still linked to
\* the parent through living processes (an orphan is re-parented away).
Linked(c) == Alive(c) /\ (Parent(c) = "root" \/ Alive(Parent(c)))
SelectLinked(s) == SelectSeq(s, LAMBDA c : Linked(c))
Children == SelectLinked(<<"c1", "c2">>)

Terminate(st, p) == [st EXCEPT ![p] = "killed"]

CallKill(ret) ==
  /\ pc' = "k_enum"
  /\ kret' = ret

\* psutil.Process(proc.pid) and parent.children(recursive=True).  When the
\* spawned process is gone nothing is enumerated and nothing is signalled
\* (NoSuchProcess is swallowed).
KillEnum ==
  /\ pc = "k_enum"
  /\ atKill' = {p \in Procs : Alive(p)}
  /\ rerun' = (status = afterKill)
  /\ IF Alive("root")
       THEN /\ ksnap' = Children
            /\ pc' = "k_loop"
            /\ UNCHANGED afterKill
       ELSE /\ ksnap' = <<>>
            /\ pc' = kret
            /\ afterKill' = status
  /\ UNCHANGED <<mode, fileExists, dirExists, run_timeout, lineBudget, mayOpen, spawned, waited, pidx,
                 foundOpen, server_url, last_len, new_lines, drained, elapsed,
                 result_container, web_ret, outcome, kret, intry, cancelled,
                 console_result, exec_result, rp_result>>
  /\ UNCHANGED envVars
  /\ UNCHANGED monVars
  /\ touched' = touched \cup {<<"supervisor", "process", "pid">>}
  /\ UNCHANGED foreign
  /\ UNCHANGED wait_loop
  /\ UNCHANGED main_loop

\* child.terminate() for the next enumerated child.  A child that exited since
\* the enumeration is either still a zombie (the signal is a no-op) or already
\* reaped: then terminate() raises NoSuchProcess, which leaves the function.
KillChild ==
  /\ pc = "k_loop"
  /\ ksnap # <<>>
  /\ LET c == Head(ksnap) IN
       IF Alive(c)
         THEN /\ status' = Terminate(status, c)
              /\ ksnap' = Tail(ksnap)
              /\ pc' = "k_loop"
              /\ UNCHANGED afterKill
         ELSE /\ UNCHANGED status
              /\ \/ /\ ksnap' = Tail(ksnap)
                    /\ pc' = "k_loop"
                    /\ UNCHANGED afterKill
                 \/ /\ ksnap' = <<>>
                    /\ pc' = kret
                    /\ afterKill' = status
  /\ UNCHANGED <<mode, fileExists, dirExists, run_timeout, lineBudget, mayOpen, spawned, waited, pidx,
                 foundOpen, server_url, last_len, new_lines, drained, elapsed,
                 result_container, web_ret, outcome, kret, atKill, rerun, intry,
                 cancelled, console_result, exec_result, rp_result>>
  /\ UNCHANGED <<returncode, pipe, err_file, openPorts, exitAt>>
  /\ UNCHANGED monVars
  /\ UNCHANGED touched
  /\ UNCHANGED foreign
  /\ UNCHANGED wait_loop
  /\ UNCHANGED main_loop

\* A terminator that signals the parent without waiting for the end of the
\* loop over the children.
KillParentEarly ==
  /\ pc = "k_loop"
  /\ ksnap = <<>> \/ Alive("root")
  /\ IF Alive("root")
       THEN /\ status' = Terminate(status, "root")
            /\ returncode' = TermRC
            /\ exitAt' = elapsed
       ELSE UNCHANGED <<status, returncode, exitAt>>
  /\ IF ksnap = <<>>
       THEN /\ afterKill' = status'
            /\ pc' = kret
       ELSE /\ UNCHANGED afterKill
            /\ pc' = "k_loop"
  /\ UNCHANGED <<mode, fileExists, dirExists, run_timeout, lineBudget, mayOpen, spawned, waited, pidx,
                 foundOpen, server_url, last_len, new_lines, drained, elapsed,
                 result_container, web_ret, outcome, kret, ksnap, atKill, rerun, intry,
                 cancelled, console_result, exec_result, rp_result>>
  /\ UNCHANGED <<pipe, err_file, openPorts>>
  /\ UNCHANGED monVars
  /\ UNCHANGED touched
  /\ UNCHANGED foreign
  /\ UNCHANGED wait_loop
  /\ UNCHANGED main_loop

\* parent.terminate(), after the loop over the children.
KillParent ==
  /\ pc = "k_loop"
  /\ ksnap = <<>>
  /\ IF Alive("root")
       THEN /\ status' = Terminate(status, "root")
            /\ returncode' = TermRC
            /\ exitAt' = elapsed
       ELSE UNCHANGED <<status, returncode, exitAt>>
  /\ afterKill' = status'
  /\ pc' = kret
  /\ UNCHANGED <<mode, fileExists, dirExists, run_timeout, lineBudget, mayOpen, spawned, waited, pidx,
                 foundOpen, server_url, last_len, new_lines, drained, elapsed,
                 result_container, web_ret, outcome, kret, ksnap, atKill, rerun, intry,
                 cancelled, console_result, exec_result, rp_result>>
  /\ UNCHANGED <<pipe, err_file, openPorts>>
  /\ UNCHANGED monVars
  /\ UNCHANGED touched
  /\ UNCHANGED foreign
  /\ UNCHANGED wait_loop
  /\ UNCHANGED main_loop

(* ======================= code_runner.run_web_server ===================== *)
cfgVars == <<mode, fileExists, dirExists, run_timeout, lineBudget, mayOpen>>
probeVars == <<waited, pidx, foundOpen, server_url>>
loopVars == <<last_len, new_lines, drained, elapsed>>
resVars == <<console_result, exec_result, rp_result>>
killVars == <<kret, ksnap, atKill, afterKill, rerun>>

\* _start_web_process and _create_output_reader_thread.  There is no check
\* that the entry file exists: the interpreter is spawned in any case, and
\* Popen itself raises when the working directory is missing.
WebSpawn ==
  /\ pc = "start"
  /\ mode = "web"
  /\ IF dirExists
       THEN /\ status' = [status EXCEPT !["root"] = "alive"]
            /\ spawned' = spawned + 1
            /\ mon' = "running"
            /\ pc' = "w_poll"
            /\ UNCHANGED outcome
       ELSE /\ outcome' = "raised"
            /\ pc' = "done"
            /\ UNCHANGED <<status, spawned, mon>>
  /\ UNCHANGED <<returncode, pipe, err_file, openPorts, exitAt, output_lines>>
  /\ UNCHANGED <<cfgVars, probeVars, loopVars, resVars, killVars>>
  /\ UNCHANGED <<result_container, web_ret, intry, cancelled>>
  /\ UNCHANGED touched
  /\ UNCHANGED foreign
  /\ UNCHANGED wait_loop
  /\ UNCHANGED main_loop

\* run_main_web_app, lines 113-120, for a failed run_web_server.
ServerInfoFail(msg, outc) ==
  /\ result_container' = [has_process |-> TRUE, server_url |-> NoUrl,
                          server_error |-> Msg(msg),
                          server_output |-> ServerOutputRef]
  /\ web_ret' = "False"
  /\ outcome' = outc
  /\ pc' = "rp_check"

\* An iteration that probes the ports without the exit check.
WebPollNoExitCheck ==
  /\ pc = "w_poll"
  /\ pc' = "w_probe"
  /\ pidx' = 1
  /\ foundOpen' = {}
  /\ UNCHANGED <<result_container, web_ret, outcome>>
  /\ UNCHANGED <<waited, server_url, spawned, intry, cancelled>>
  /\ UNCHANGED <<cfgVars, loopVars, resVars, killVars>>
  /\ UNCHANGED envVars
  /\ UNCHANGED monVars
  /\ touched' = touched \cup {<<"supervisor", "process", "poll">>}
  /\ UNCHANGED foreign
  /\ UNCHANGED wait_loop
  /\ UNCHANGED main_loop

\* run_web_server line 86: the exit check that opens every iteration.
WebPoll ==
  /\ pc = "w_poll"
  /\ IF ~Alive("root")
       THEN /\ ServerInfoFail("Server exited unexpectedly", "NeverBound")
            /\ UNCHANGED <<pidx, foundOpen>>
       ELSE /\ pc' = "w_probe"
            /\ pidx' = 1
            /\ foundOpen' = {}
            /\ UNCHANGED <<result_container, web_ret, outcome>>
  /\ UNCHANGED <<waited, server_url, spawned, intry, cancelled>>
  /\ UNCHANGED <<cfgVars, loopVars, resVars, killVars>>
  /\ UNCHANGED envVars
  /\ UNCHANGED monVars
  /\ touched' = touched \cup {<<"supervisor", "process", "poll">>}
  /\ UNCHANGED foreign
  /\ UNCHANGED wait_loop
  /\ UNCHANGED main_loop

\* The same loop without the break: the last open candidate wins.
ProbePortNoBreak ==
  /\ pc = "w_probe"
  /\ LET p == default_ports[pidx] IN
       /\ IF p \in openPorts
            THEN /\ server_url' = Url(p)
                 /\ foundOpen' = foundOpen \cup {p}
            ELSE UNCHANGED <<server_url, foundOpen>>
       /\ IF pidx < Len(default_ports)
            THEN /\ pidx' = pidx + 1
                 /\ pc' = "w_probe"
            ELSE /\ UNCHANGED pidx
                 /\ pc' = IF server_url' # NoUrl THEN "w_after" ELSE "w_sleep"
  /\ UNCHANGED <<waited, spawned, intry, cancelled>>
  /\ UNCHANGED <<result_container, web_ret, outcome>>
  /\ UNCHANGED <<cfgVars, loopVars, resVars, killVars>>
  /\ UNCHANGED envVars
  /\ UNCHANGED monVars
  /\ UNCHANGED touched
  /\ UNCHANGED foreign
  /\ UNCHANGED wait_loop
  /\ UNCHANGED main_loop

\* run_web_server lines 90-95: one _is_port_open of the for loop; the first
\* candidate found open sets server_url and leaves both loops.
ProbePort ==
  /\ pc = "w_probe"
  /\ LET p == default_ports[pidx] IN
       IF p \in openPorts
         THEN /\ server_url' = Url(p)
              /\ foundOpen' = foundOpen \cup {p}
              /\ pc' = "w_after"
              /\ UNCHANGED pidx
         ELSE /\ UNCHANGED <<server_url, foundOpen>>
              /\ IF pidx < Len(default_ports)
                   THEN /\ pidx' = pidx + 1
                        /\ pc' = "w_probe"
                   ELSE /\ UNCHANGED pidx
                        /\ pc' = "w_sleep"
  /\ UNCHANGED <<waited, spawned, intry, cancelled>>
  /\ UNCHANGED <<result_container, web_ret, outcome>>
  /\ UNCHANGED <<cfgVars, loopVars, resVars, killVars>>
  /\ UNCHANGED envVars
  /\ UNCHANGED monVars
  /\ UNCHANGED touched
  /\ UNCHANGED foreign
  /\ UNCHANGED wait_loop
  /\ UNCHANGED main_loop

\* run_web_server lines 97-98 and the loop test of line 85.
WebSleep ==
  /\ pc = "w_sleep"
  /\ waited' = waited + 1
  /\ pc' = IF waited + 1 < MaxWaitIters THEN "w_poll" ELSE "w_after"
  /\ UNCHANGED <<pidx, foundOpen, server_url, spawned, intry, cancelled>>
  /\ UNCHANGED <<result_container, web_ret, outcome>>
  /\ UNCHANGED <<cfgVars, loopVars, resVars, killVars>>
  /\ UNCHANGED envVars
  /\ UNCHANGED monVars
  /\ UNCHANGED touched
  /\ UNCHANGED foreign
  /\ UNCHANGED wait_loop
  /\ UNCHANGED main_loop

\* run_web_server lines 100-105, then run_main_web_app lines 113-130.
WebAfter ==
  /\ pc = "w_after"
  /\ IF server_url = NoUrl
       THEN /\ ServerInfoFail("Server did not start in time", "StartTimeout")
            /\ UNCHANGED <<intry, last_len, elapsed>>
       ELSE /\ result_container' = [has_process |-> TRUE, server_url |-> server_url,
                                    server_error |-> NoError,
                                    server_output |-> ServerOutputRef]
            /\ last_len' = 0
            /\ elapsed' = 0
            /\ intry' = TRUE
            /\ pc' = "s_slice"
            /\ UNCHANGED <<web_ret, outcome>>
  /\ UNCHANGED <<new_lines, drained, spawned, cancelled>>
  /\ UNCHANGED <<cfgVars, probeVars, resVars, killVars>>
  /\ UNCHANGED envVars
  /\ UNCHANGED monVars
  /\ touched' = touched \cup (IF server_url = NoUrl THEN {}
                            ELSE {<<"supervisor", "console", "w">>})
  /\ UNCHANGED foreign
  /\ UNCHANGED wait_loop
  /\ UNCHANGED main_loop

(* ============== code_runner.run_main_web_app: the poll loop ============= *)
HasMarker(line) == line = CrashMarker
Drop(s, n) == SubSeq(s, n + 1, Len(s))          \* s[n:]
RECURSIVE FirstMarker(_, _)
\* index of the first line of s, at or after i, that holds the marker; 0 if none
FirstMarker(s, i) ==
  IF i > Len(s) THEN 0
  ELSE IF HasMarker(s[i]) THEN i
  ELSE FirstMarker(s, i + 1)

\* A supervisor that takes the batch out of the shared list.
SvcSliceConsume ==
  /\ pc = "s_slice"
  /\ new_lines' = output_lines
  /\ drained' = drained \o output_lines
  /\ output_lines' = <<>>
  /\ pc' = "s_len"
  /\ UNCHANGED <<last_len, elapsed, spawned, intry, cancelled, mon>>
  /\ UNCHANGED <<result_container, web_ret, outcome>>
  /\ UNCHANGED <<cfgVars, probeVars, resVars, killVars>>
  /\ UNCHANGED envVars
  /\ touched' = touched \cup {<<"supervisor", "output_lines", "r">>,
                            <<"supervisor", "output_lines", "w">>}
  /\ UNCHANGED foreign
  /\ UNCHANGED wait_loop
  /\ UNCHANGED main_loop

\* line 135: new_lines = output_lines[last_len:]
SvcSlice ==
  /\ pc = "s_slice"
  /\ new_lines' = Drop(output_lines, last_len)
  /\ drained' = drained \o Drop(output_lines, last_len)
  /\ pc' = "s_len"
  /\ UNCHANGED <<last_len, elapsed, spawned, intry, cancelled>>
  /\ UNCHANGED <<result_container, web_ret, outcome>>
  /\ UNCHANGED <<cfgVars, probeVars, resVars, killVars>>
  /\ UNCHANGED envVars
  /\ UNCHANGED monVars
  /\ touched' = touched \cup {<<"supervisor", "output_lines", "r">>}
  /\ UNCHANGED foreign
  /\ UNCHANGED wait_loop
  /\ UNCHANGED main_loop

\* A cursor that is set to the length of the batch, not of the buffer.
SvcLenBatch ==
  /\ pc = "s_len"
  /\ last_len' = Len(new_lines)
  /\ pc' = "s_scan"
  /\ UNCHANGED <<new_lines, drained, elapsed, spawned, intry, cancelled>>
  /\ UNCHANGED <<result_container, web_ret, outcome>>
  /\ UNCHANGED <<cfgVars, probeVars, resVars, killVars>>
  /\ UNCHANGED envVars
  /\ UNCHANGED monVars
  /\ UNCHANGED touched
  /\ UNCHANGED foreign
  /\ UNCHANGED wait_loop
  /\ UNCHANGED main_loop

\* line 136: last_len = len(output_lines), a separate read of the shared list
SvcLen ==
  /\ pc = "s_len"
  /\ last_len' = Len(output_lines)
  /\ pc' = "s_scan"
  /\ UNCHANGED <<new_lines, drained, elapsed, spawned, intry, cancelled>>
  /\ UNCHANGED <<result_container, web_ret, outcome>>
  /\ UNCHANGED <<cfgVars, probeVars, resVars, killVars>>
  /\ UNCHANGED envVars
  /\ UNCHANGED monVars
  /\ touched' = touched \cup {<<"supervisor", "output_lines", "r">>}
  /\ UNCHANGED foreign
  /\ UNCHANGED wait_loop
  /\ UNCHANGED main_loop

\* A tick that goes to the exit check without scanning the batch.
SvcScanSkip ==
  /\ pc = "s_scan"
  /\ pc' = "s_poll"
  /\ UNCHANGED <<result_container, kret>>
  /\ UNCHANGED <<ksnap, atKill, afterKill, rerun, spawned, intry, cancelled, web_ret, outcome>>
  /\ UNCHANGED <<cfgVars, probeVars, loopVars, resVars>>
  /\ UNCHANGED envVars
  /\ UNCHANGED monVars
  /\ UNCHANGED touched
  /\ UNCHANGED foreign
  /\ UNCHANGED wait_loop
  /\ UNCHANGED main_loop

\* lines 137-141: scan the batch; on the first marker record the tail and
\* call _kill_process_tree
SvcScan ==
  /\ pc = "s_scan"
  /\ LET i == FirstMarker(new_lines, 1) IN
       IF i # 0
         THEN /\ result_container' =
                   [result_container EXCEPT !.server_error = TailErr(Drop(new_lines, i - 1))]
              /\ CallKill("s_ret_crash")
         ELSE /\ pc' = "s_poll"
              /\ UNCHANGED <<result_container, kret>>
  /\ UNCHANGED <<ksnap, atKill, afterKill, rerun, spawned, intry, cancelled, web_ret, outcome>>
  /\ UNCHANGED <<cfgVars, probeVars, loopVars, resVars>>
  /\ UNCHANGED envVars
  /\ UNCHANGED monVars
  /\ UNCHANGED touched
  /\ UNCHANGED foreign
  /\ UNCHANGED wait_loop
  /\ UNCHANGED main_loop

\* A tick that goes to the timeout check without the exit check.
SvcPollNoExitCheck ==
  /\ pc = "s_poll"
  /\ pc' = "s_timeout"
  /\ UNCHANGED <<result_container, web_ret, outcome, intry>>
  /\ UNCHANGED <<spawned, cancelled>>
  /\ UNCHANGED <<cfgVars, probeVars, loopVars, resVars, killVars>>
  /\ UNCHANGED envVars
  /\ UNCHANGED monVars
  /\ touched' = touched \cup {<<"supervisor", "process", "poll">>}
  /\ UNCHANGED foreign
  /\ UNCHANGED wait_loop
  /\ UNCHANGED main_loop

\* lines 145-148: the process exited; no termination on this path
SvcPoll ==
  /\ pc = "s_poll"
  /\ IF ~Alive("root")
       THEN /\ result_container' =
                 IF result_container.server_error.kind = "none"
                   THEN [result_container EXCEPT
                           !.server_error = Msg("Web server stopped unexpectedly")]
                   ELSE result_container
            /\ web_ret' = "False"
            /\ outcome' = "UnexpectedExit"
            /\ intry' = FALSE
            /\ pc' = "rp_check"
       ELSE /\ pc' = "s_timeout"
            /\ UNCHANGED <<result_container, web_ret, outcome, intry>>
  /\ UNCHANGED <<spawned, cancelled>>
  /\ UNCHANGED <<cfgVars, probeVars, loopVars, resVars, killVars>>
  /\ UNCHANGED envVars
  /\ UNCHANGED monVars
  /\ touched' = touched \cup {<<"supervisor", "process", "poll">>}
  /\ UNCHANGED foreign
  /\ UNCHANGED wait_loop
  /\ UNCHANGED main_loop

\* lines 151-153: the run timeout, checked once per cycle
SvcTimeout ==
  /\ pc = "s_timeout"
  /\ IF run_timeout # 0 /\ elapsed > run_timeout
       THEN CallKill("s_ret_timeout")
       ELSE /\ pc' = "s_sleep"
            /\ UNCHANGED kret
  /\ UNCHANGED <<ksnap, atKill, afterKill, rerun, spawned, intry, cancelled>>
  /\ UNCHANGED <<result_container, web_ret, outcome>>
  /\ UNCHANGED <<cfgVars, probeVars, loopVars, resVars>>
  /\ UNCHANGED envVars
  /\ UNCHANGED monVars
  /\ touched' = touched \cup (IF run_timeout # 0 /\ elapsed > run_timeout
                            THEN {<<"supervisor", "console", "w">>} ELSE {})
  /\ UNCHANGED foreign
  /\ UNCHANGED wait_loop
  /\ UNCHANGED main_loop

\* line 156: time.sleep(1) sleeps at least one tick
SvcSleep(d) ==
  /\ pc = "s_sleep"
  /\ elapsed + d <= MaxElapsed
  /\ elapsed' = elapsed + d
  /\ pc' = "s_slice"
  /\ UNCHANGED <<last_len, new_lines, drained, spawned, intry, cancelled>>
  /\ UNCHANGED <<result_container, web_ret, outcome>>
  /\ UNCHANGED <<cfgVars, probeVars, resVars, killVars>>
  /\ UNCHANGED envVars
  /\ UNCHANGED monVars
  /\ UNCHANGED touched
  /\ UNCHANGED foreign
  /\ UNCHANGED wait_loop
  /\ UNCHANGED main_loop

\* A KeyboardInterrupt is raised in the supervisor thread while it is inside
\* the try block (lines 132-156, _kill_process_tree calls included).
Interrupt ==
  /\ intry
  /\ ~cancelled
  /\ cancelled' = TRUE
  /\ intry' = FALSE
  /\ ksnap' = <<>>
  /\ pc' = "s_int"
  /\ UNCHANGED <<kret, atKill, afterKill, rerun, spawned, result_container, web_ret, outcome>>
  /\ UNCHANGED <<cfgVars, probeVars, loopVars, resVars>>
  /\ UNCHANGED envVars
  /\ UNCHANGED monVars
  /\ UNCHANGED touched
  /\ UNCHANGED foreign
  /\ UNCHANGED wait_loop
  /\ UNCHANGED main_loop

\* lines 158-161: the handler terminates the tree only if the process runs
SvcInt ==
  /\ pc = "s_int"
  /\ IF Alive("root")
       THEN CallKill("s_ret_int")
       ELSE /\ pc' = "s_ret_int"
            /\ UNCHANGED kret
  /\ UNCHANGED <<ksnap, atKill, afterKill, rerun, spawned, intry, cancelled>>
  /\ UNCHANGED <<result_container, web_ret, outcome>>
  /\ UNCHANGED <<cfgVars, probeVars, loopVars, resVars>>
  /\ UNCHANGED envVars
  /\ UNCHANGED monVars
  /\ touched' = touched \cup {<<"supervisor", "console", "w">>, <<"supervisor", "process", "poll">>}
  /\ UNCHANGED foreign
  /\ UNCHANGED wait_loop
  /\ UNCHANGED main_loop

\* lines 142, 154, 162: the return that follows _kill_process_tree
SvcReturn ==
  /\ pc \in {"s_ret_crash", "s_ret_timeout", "s_ret_int"}
  /\ web_ret' = IF pc = "s_ret_crash" THEN "False" ELSE "True"
  /\ outcome' = CASE pc = "s_ret_crash" -> "Crash"
                  [] pc = "s_ret_timeout" -> "TimeoutStop"
                  [] OTHER -> "Cancelled"
  /\ intry' = FALSE
  /\ pc' = "rp_check"
  /\ UNCHANGED <<spawned, cancelled, result_container>>
  /\ UNCHANGED <<cfgVars, probeVars, loopVars, resVars, killVars>>
  /\ UNCHANGED envVars
  /\ UNCHANGED monVars
  /\ UNCHANGED touched
  /\ UNCHANGED foreign
  /\ UNCHANGED wait_loop
  /\ UNCHANGED main_loop

\* A KeyboardInterrupt is raised in the supervisor thread while it is in
\* run_web_server or in lines 113-130 of run_main_web_app, before the try block:
\* nothing catches it, in run_project either.
IntProbe ==
  /\ pc \in {"w_poll", "w_probe", "w_sleep", "w_after"}
  /\ ~cancelled
  /\ cancelled' = TRUE
  /\ outcome' = "raised"
  /\ pc' = "done"
  /\ UNCHANGED <<spawned, intry, result_container, web_ret>>
  /\ UNCHANGED <<cfgVars, probeVars, loopVars, resVars, killVars>>
  /\ UNCHANGED envVars
  /\ UNCHANGED monVars
  /\ UNCHANGED touched
  /\ UNCHANGED foreign
  /\ UNCHANGED wait_loop
  /\ UNCHANGED main_loop

(* ========================== agent.run_project =========================== *)
WebSuccess == web_ret = "True" /\ result_container.server_error.kind = "none"

\* lines 135-138: clean up after a failed web run
RpCheck ==
  /\ pc = "rp_check"
  /\ IF ~WebSuccess /\ Alive("root")
       THEN CallKill("rp_clean")
       ELSE /\ pc' = "rp_clean"
            /\ UNCHANGED kret
  /\ UNCHANGED <<ksnap, atKill, afterKill, rerun, spawned, intry, cancelled>>
  /\ UNCHANGED <<result_container, web_ret, outcome>>
  /\ UNCHANGED <<cfgVars, probeVars, loopVars, resVars>>
  /\ UNCHANGED envVars
  /\ UNCHANGED monVars
  /\ touched' = touched \cup (IF WebSuccess THEN {} ELSE {<<"supervisor", "process", "poll">>})
  /\ UNCHANGED foreign
  /\ UNCHANGED wait_loop
  /\ UNCHANGED main_loop

\* lines 146-147: the unconditional clean up
RpClean ==
  /\ pc = "rp_clean"
  /\ IF Alive("root")
       THEN CallKill("rp_return")
       ELSE /\ pc' = "rp_return"
            /\ UNCHANGED kret
  /\ UNCHANGED <<ksnap, atKill, afterKill, rerun, spawned, intry, cancelled>>
  /\ UNCHANGED <<result_container, web_ret, outcome>>
  /\ UNCHANGED <<cfgVars, probeVars, loopVars, resVars>>
  /\ UNCHANGED envVars
  /\ UNCHANGED monVars
  /\ touched' = touched \cup {<<"supervisor", "process", "poll">>}
  /\ UNCHANGED foreign
  /\ UNCHANGED wait_loop
  /\ UNCHANGED main_loop

\* The text an error value holds: a message, or the joined lines of a
\* traceback tail ("" when there is no line to join).
ErrorText(e) ==
  IF e.kind = "msg" THEN e.msg
  ELSE IF e.tail = <<>> THEN "" ELSE "tail"
\* result_container.get("server_error", "failed to run web server")
GetServerError ==
  IF result_container.server_error.kind = "none"
    THEN "failed to run web server"
    ELSE ErrorText(result_container.server_error)
\* lines 128-131: error_message after a web run ("" stands for None)
WebErrorMessage ==
  IF web_ret # "True" \/ result_container.server_error.kind # "none"
    THEN GetServerError
    ELSE ""
\* lines 150-158: "if error_message:" chooses the result
RpResult(error_message) ==
  [set |-> TRUE, success |-> (error_message = ""), returncode |-> NoneRC,
   error |-> error_message, stderr |-> <<>>]

\* lines 128-131 and 150-158: the result of a web run
RpReturn ==
  /\ pc = "rp_return"
  /\ mode = "web"
  /\ rp_result' = RpResult(WebErrorMessage)
  /\ pc' = "done"
  /\ UNCHANGED <<spawned, intry, cancelled, console_result, exec_result>>
  /\ UNCHANGED <<result_container, web_ret, outcome>>
  /\ UNCHANGED <<cfgVars, probeVars, loopVars, killVars>>
  /\ UNCHANGED envVars
  /\ UNCHANGED monVars
  /\ UNCHANGED touched
  /\ UNCHANGED foreign
  /\ UNCHANGED wait_loop
  /\ UNCHANGED main_loop

(* ================== code_runner.run_main_as_console_app ================= *)
\* err_file.read() decodes the sink as UTF-8 (errors strict)
Decodable(f) == \A i \in 1..Len(f) : f[i] # "bad"

\* lines 180-188: Popen, with no check that the entry file exists; Popen raises
\* when the working directory is missing, outside of any try
ConSpawn ==
  /\ pc = "start"
  /\ mode = "console"
  /\ IF dirExists
       THEN /\ status' = [status EXCEPT !["root"] = "alive"]
            /\ spawned' = spawned + 1
            /\ elapsed' = 0
            /\ pc' = "c_poll"
            /\ UNCHANGED outcome
       ELSE /\ outcome' = "raised"
            /\ pc' = "done"
            /\ UNCHANGED <<status, spawned, elapsed>>
  /\ UNCHANGED <<returncode, pipe, err_file, openPorts, exitAt>>
  /\ UNCHANGED <<last_len, new_lines, drained, intry, cancelled>>
  /\ UNCHANGED <<result_container, web_ret>>
  /\ UNCHANGED <<cfgVars, probeVars, resVars, killVars>>
  /\ UNCHANGED monVars
  /\ UNCHANGED touched
  /\ UNCHANGED foreign
  /\ UNCHANGED wait_loop
  /\ UNCHANGED main_loop

ExitResult(ret, content) ==
  [set |-> TRUE, success |-> (ret = 0), returncode |-> ret,
   error |-> IF ret = 0 THEN "" ELSE "failed to run", stderr |-> content]

\* a timeout reported like a failed exit
TimeoutResultAsExit(content) ==
  [set |-> TRUE, success |-> FALSE, returncode |-> KillRC,
   error |-> "failed to run", stderr |-> content]

\* lines 212-219: the result of a run stopped by the timeout
TimeoutResult(content) ==
  [set |-> TRUE, success |-> FALSE, returncode |-> NoneRC,
   error |-> "time out", stderr |-> content]

\* lines 228-235: the result of a run ended by an exception, error = str(e)
ExceptionResult(content) ==
  [set |-> TRUE, success |-> FALSE, returncode |-> NoneRC,
   error |-> "exception", stderr |-> content]

\* lines 192-205: the exit check that opens every tick
ConPoll ==
  /\ pc = "c_poll"
  /\ IF ~Alive("root")
       THEN \/ /\ Decodable(err_file)
               /\ console_result' = ExitResult(returncode, err_file)
               /\ outcome' = "Exited"
               /\ pc' = "rp_console"
            \* err_file.read() raises: the sink is no UTF-8, or the read fails
            \/ /\ pc' = "c_except"
               /\ UNCHANGED <<console_result, outcome>>
       ELSE /\ pc' = "c_timeout"
            /\ UNCHANGED <<console_result, outcome>>
  /\ UNCHANGED <<spawned, intry, cancelled, result_container, web_ret>>
  /\ UNCHANGED <<exec_result, rp_result>>
  /\ UNCHANGED <<cfgVars, probeVars, loopVars, killVars>>
  /\ UNCHANGED envVars
  /\ UNCHANGED monVars
  /\ UNCHANGED touched
  /\ UNCHANGED foreign
  /\ UNCHANGED wait_loop
  /\ UNCHANGED main_loop

\* A timeout check that fires as soon as the limit is reached, set or not.
ConTimeoutNonStrict ==
  /\ pc = "c_timeout"
  /\ IF elapsed >= run_timeout
       THEN /\ IF Alive("root")
                 THEN /\ status' = Terminate(status, "root")
                      /\ returncode' = KillRC
                      /\ exitAt' = elapsed
                 ELSE UNCHANGED <<status, returncode, exitAt>>
            /\ \/ /\ Decodable(err_file)
                  /\ console_result' = TimeoutResult(err_file)
                  /\ outcome' = "Timeout"
                  /\ pc' = "rp_console"
               \* err_file.read() raises
               \/ /\ pc' = "c_except"
                  /\ UNCHANGED <<console_result, outcome>>
       ELSE /\ pc' = "c_sleep"
            /\ UNCHANGED <<status, returncode, exitAt, console_result, outcome>>
  /\ UNCHANGED <<spawned, intry, cancelled, result_container, web_ret>>
  /\ UNCHANGED <<exec_result, rp_result>>
  /\ UNCHANGED <<cfgVars, probeVars, loopVars, killVars>>
  /\ UNCHANGED <<pipe, err_file, openPorts>>
  /\ UNCHANGED monVars
  /\ UNCHANGED touched
  /\ UNCHANGED foreign
  /\ UNCHANGED wait_loop
  /\ UNCHANGED main_loop

\* lines 207-219: the timeout check; process.kill() reaches the spawned
\* process only, not its descendants
ConTimeout ==
  /\ pc = "c_timeout"
  /\ IF run_timeout # 0 /\ elapsed > run_timeout
       THEN /\ IF Alive("root")
                 THEN /\ status' = Terminate(status, "root")
                      /\ returncode' = KillRC
                      /\ exitAt' = elapsed
                 ELSE UNCHANGED <<status, returncode, exitAt>>
            /\ \/ /\ Decodable(err_file)
                  /\ console_result' = TimeoutResult(err_file)
                  /\ outcome' = "Timeout"
                  /\ pc' = "rp_console"
               \* err_file.read() raises
               \/ /\ pc' = "c_except"
                  /\ UNCHANGED <<console_result, outcome>>
       ELSE /\ pc' = "c_sleep"
            /\ UNCHANGED <<status, returncode, exitAt, console_result, outcome>>
  /\ UNCHANGED <<spawned, intry, cancelled, result_container, web_ret>>
  /\ UNCHANGED <<exec_result, rp_result>>
  /\ UNCHANGED <<cfgVars, probeVars, loopVars, killVars>>
  /\ UNCHANGED <<pipe, err_file, openPorts>>
  /\ UNCHANGED monVars
  /\ UNCHANGED touched
  /\ UNCHANGED foreign
  /\ UNCHANGED wait_loop
  /\ UNCHANGED main_loop

\* line 221: time.sleep(0.1) sleeps at least one tick
ConSleep(d) ==
  /\ pc = "c_sleep"
  /\ elapsed + d <= MaxElapsed
  /\ elapsed' = elapsed + d
  /\ pc' = "c_poll"
  /\ UNCHANGED <<last_len, new_lines, drained, spawned, intry, cancelled>>
  /\ UNCHANGED <<result_container, web_ret, outcome>>
  /\ UNCHANGED <<cfgVars, probeVars, resVars, killVars>>
  /\ UNCHANGED envVars
  /\ UNCHANGED monVars
  /\ UNCHANGED touched
  /\ UNCHANGED foreign
  /\ UNCHANGED wait_loop
  /\ UNCHANGED main_loop

\* lines 223-235: the handler kills the process and reads the sink again; a
\* sink that cannot be decoded, or a read that fails again, raises out of the
\* call
ConExcept ==
  /\ pc = "c_except"
  /\ IF Alive("root")
       THEN /\ status' = Terminate(status, "root")
            /\ returncode' = KillRC
            /\ exitAt' = elapsed
       ELSE UNCHANGED <<status, returncode, exitAt>>
  /\ \/ /\ Decodable(err_file)
        /\ console_result' = ExceptionResult(err_file)
        /\ outcome' = "Exception"
        /\ pc' = "rp_console"
     \* err_file.read() raises again, inside the handler
     \/ /\ outcome' = "raised"
        /\ pc' = "done"
        /\ UNCHANGED console_result
  /\ UNCHANGED <<spawned, intry, cancelled, result_container, web_ret>>
  /\ UNCHANGED <<exec_result, rp_result>>
  /\ UNCHANGED <<cfgVars, probeVars, loopVars, killVars>>
  /\ UNCHANGED <<pipe, err_file, openPorts>>
  /\ UNCHANGED monVars
  /\ UNCHANGED touched
  /\ UNCHANGED foreign
  /\ UNCHANGED wait_loop
  /\ UNCHANGED main_loop

\* A KeyboardInterrupt is raised in the supervisor thread during the console
\* poll loop: it is no Exception, so the handler of line 223 does not catch it;
\* it leaves run_main_as_console_app and run_project with the process running.
IntConsole ==
  /\ pc \in {"c_poll", "c_timeout", "c_sleep"}
  /\ ~cancelled
  /\ cancelled' = TRUE
  /\ outcome' = "raised"
  /\ pc' = "done"
  /\ UNCHANGED <<spawned, intry, result_container, web_ret>>
  /\ UNCHANGED <<cfgVars, probeVars, loopVars, resVars, killVars>>
  /\ UNCHANGED envVars
  /\ UNCHANGED monVars
  /\ UNCHANGED touched
  /\ UNCHANGED foreign
  /\ UNCHANGED wait_loop
  /\ UNCHANGED main_loop

\* agent.run_project lines 140-158 for a console run
\* agent.py lines 140-143: error_message after a console run ("" stands for
\* None): console_result.get("stderr") or console_result.get("error", ...)
ConsoleErrorMessage ==
  IF ~console_result.success
    THEN IF console_result.stderr # <<>> THEN "stderr" ELSE console_result.error
    ELSE ""
RpConsole ==
  /\ pc = "rp_console"
  /\ rp_result' = RpResult(ConsoleErrorMessage)
  /\ pc' = "done"
  /\ UNCHANGED <<spawned, intry, cancelled, console_result, exec_result>>
  /\ UNCHANGED <<result_container, web_ret, outcome>>
  /\ UNCHANGED <<cfgVars, probeVars, loopVars, killVars>>
  /\ UNCHANGED envVars
  /\ UNCHANGED monVars
  /\ UNCHANGED touched
  /\ UNCHANGED foreign
  /\ UNCHANGED wait_loop
  /\ UNCHANGED main_loop

(* ===================== code_runner.execute_python_code ================== *)
\* communicate() returns once the process has exited and its pipes reached
\* end-of-stream, which needs every process holding them to be gone
PipesClosed == ~AnyAlive

\* lines 18-32: the existence check, then Popen
ExecStart ==
  /\ pc = "start"
  /\ mode = "exec"
  /\ IF ~fileExists
       THEN /\ exec_result' = [set |-> TRUE, success |-> FALSE, returncode |-> NoneRC,
                               error |-> "file not found", stderr |-> <<>>]
            /\ outcome' = "FileNotFound"
            /\ pc' = "done"
            /\ UNCHANGED <<status, spawned>>
       ELSE /\ status' = [status EXCEPT !["root"] = "alive"]
            /\ spawned' = spawned + 1
            /\ pc' = "e_comm"
            /\ UNCHANGED <<exec_result, outcome>>
  /\ UNCHANGED <<returncode, pipe, err_file, openPorts, exitAt>>
  /\ UNCHANGED <<intry, cancelled, result_container, web_ret>>
  /\ UNCHANGED <<console_result, rp_result>>
  /\ UNCHANGED <<cfgVars, probeVars, loopVars, killVars>>
  /\ UNCHANGED monVars
  /\ UNCHANGED touched
  /\ UNCHANGED foreign
  /\ UNCHANGED wait_loop
  /\ UNCHANGED main_loop

\* time passes while communicate() blocks
ExecWait(d) ==
  /\ pc = "e_comm"
  /\ ~(~Alive("root") /\ PipesClosed)
  /\ elapsed + d <= MaxElapsed
  /\ elapsed' = elapsed + d
  /\ UNCHANGED <<pc, last_len, new_lines, drained, spawned, intry, cancelled>>
  /\ UNCHANGED <<result_container, web_ret, outcome>>
  /\ UNCHANGED <<cfgVars, probeVars, resVars, killVars>>
  /\ UNCHANGED envVars
  /\ UNCHANGED monVars
  /\ UNCHANGED touched
  /\ UNCHANGED foreign
  /\ UNCHANGED wait_loop
  /\ UNCHANGED main_loop

\* lines 35-38 and 54-60: communicate() returned
ExecDone ==
  /\ pc = "e_comm"
  /\ ~Alive("root")
  /\ PipesClosed
  /\ exec_result' = [set |-> TRUE, success |-> (returncode = 0),
                     returncode |-> returncode, error |-> "", stderr |-> <<>>]
  /\ outcome' = "Exited"
  /\ pc' = "done"
  /\ UNCHANGED <<spawned, intry, cancelled, result_container, web_ret>>
  /\ UNCHANGED <<console_result, rp_result>>
  /\ UNCHANGED <<cfgVars, probeVars, loopVars, killVars>>
  /\ UNCHANGED envVars
  /\ UNCHANGED monVars
  /\ UNCHANGED touched
  /\ UNCHANGED foreign
  /\ UNCHANGED wait_loop
  /\ UNCHANGED main_loop

\* lines 39-41: TimeoutExpired, then process.kill()
ExecTimeout ==
  /\ pc = "e_comm"
  /\ ~(~Alive("root") /\ PipesClosed)
  /\ run_timeout # 0
  /\ elapsed >= run_timeout
  /\ IF Alive("root")
       THEN /\ status' = Terminate(status, "root")
            /\ returncode' = KillRC
            /\ exitAt' = elapsed
       ELSE UNCHANGED <<status, returncode, exitAt>>
  /\ pc' = "e_comm2"
  /\ UNCHANGED <<spawned, intry, cancelled, result_container, web_ret, outcome>>
  /\ UNCHANGED <<cfgVars, probeVars, loopVars, resVars, killVars>>
  /\ UNCHANGED <<pipe, err_file, openPorts>>
  /\ UNCHANGED monVars
  /\ UNCHANGED touched
  /\ UNCHANGED foreign
  /\ UNCHANGED wait_loop
  /\ UNCHANGED main_loop

\* lines 42-51: the second communicate(), without a timeout
ExecTimedOut ==
  /\ pc = "e_comm2"
  /\ PipesClosed
  /\ exec_result' = [set |-> TRUE, success |-> FALSE, returncode |-> returncode,
                     error |-> "timeout", stderr |-> <<>>]
  /\ outcome' = "Timeout"
  /\ pc' = "done"
  /\ UNCHANGED <<spawned, intry, cancelled, result_container, web_ret>>
  /\ UNCHANGED <<console_result, rp_result>>
  /\ UNCHANGED <<cfgVars, probeVars, loopVars, killVars>>
  /\ UNCHANGED envVars
  /\ UNCHANGED monVars
  /\ UNCHANGED touched
  /\ UNCHANGED foreign
  /\ UNCHANGED wait_loop
  /\ UNCHANGED main_loop

(* ======== code_runner.run_web_server: the loop counted in floats ======== *)
\* The loop of lines 85-98 with waited, poll and max_wait as Python computes
\* them. The process and the ports are free: each pass may find the process
\* gone, may find a port open, or sleeps and adds poll to waited.
WaitEntered == wait_loop.outcome = "none" /\ DLess(wait_loop.waited, DOfInt(wait_loop.max_wait))
\* lines 86-88: process.poll() is not None
WaitExited ==
  /\ mode = "wait"
  /\ WaitEntered
  /\ wait_loop' = [wait_loop EXCEPT !.iters = @ + 1, !.outcome = "exited"]
  /\ UNCHANGED runVars
  /\ UNCHANGED main_loop

\* lines 90-95: a candidate port answers
WaitBound ==
  /\ mode = "wait"
  /\ WaitEntered
  /\ wait_loop' = [wait_loop EXCEPT !.iters = @ + 1, !.outcome = "bound"]
  /\ UNCHANGED runVars
  /\ UNCHANGED main_loop

\* lines 97-98: time.sleep(poll); waited += poll
WaitTick ==
  /\ mode = "wait"
  /\ WaitEntered
  /\ wait_loop' = [wait_loop EXCEPT !.iters = @ + 1,
                                    !.waited = DAdd(@, poll)]
  /\ UNCHANGED runVars
  /\ UNCHANGED main_loop

\* line 85 false, lines 100-102: "Server did not start in time"
WaitExpire ==
  /\ mode = "wait"
  /\ wait_loop.outcome = "none"
  /\ ~DLess(wait_loop.waited, DOfInt(wait_loop.max_wait))
  /\ wait_loop' = [wait_loop EXCEPT !.outcome = "timeout"]
  /\ UNCHANGED runVars
  /\ UNCHANGED main_loop

(* ================= main.main1 / main.main2: the fix loop ================ *)
\* What a generation or fix step hands back: a project dict, the string
\* 'error' (the model request failed, project_generator.py lines 158-159), or
\* a failure dict without project_root (lines 180-185).
ProjectResults == {"dict", "error", "creation"}

\* A call of run_project starts from a fresh run state: a new child, a new
\* stderr sink, new results. The program on disk may have changed.
ResetRun ==
  /\ fileExists' \in BOOLEAN
  /\ dirExists' \in BOOLEAN
  /\ fileExists' => dirExists'
  /\ pc' = "start"
  /\ status' = [p \in Procs |-> IF status[p] = "absent" THEN "absent" ELSE "unborn"]
  /\ returncode' = NoneRC
  /\ spawned' = 0
  /\ pipe' = <<>>
  /\ output_lines' = <<>>
  /\ mon' = "none"
  /\ err_file' = <<>>
  /\ openPorts' = foreign
  /\ waited' = 0
  /\ pidx' = 1
  /\ foundOpen' = {}
  /\ server_url' = NoUrl
  /\ last_len' = 0
  /\ new_lines' = <<>>
  /\ drained' = <<>>
  /\ elapsed' = 0
  /\ result_container' = NoContainer
  /\ web_ret' = "none"
  /\ outcome' = "none"
  /\ kret' = "none"
  /\ ksnap' = <<>>
  /\ atKill' = {}
  /\ afterKill' = [p \in Procs |-> "none"]
  /\ rerun' = FALSE
  /\ touched' = {}
  /\ intry' = FALSE
  /\ cancelled' = FALSE
  /\ console_result' = NoResult
  /\ exec_result' = NoResult
  /\ rp_result' = NoResult
  /\ exitAt' = -1
  /\ UNCHANGED <<run_timeout, lineBudget, mayOpen, foreign>>

\* main.py line 6 (74): generate_project / project_project
MainGenerate ==
  /\ mode = "main"
  /\ main_loop.pc = "generate"
  /\ \E r \in ProjectResults :
       main_loop' = [main_loop EXCEPT !.pc = "run", !.result = r]
  /\ UNCHANGED runVars
  /\ UNCHANGED wait_loop

\* main.py lines 9 and 19 (78, 89): run_project(result=...) is entered.  With
\* a result that is no project dict the call raises before it runs anything
\* (agent.py line 105: result.get; line 119: None + "/main.py").
MainRun ==
  /\ mode = "main"
  /\ main_loop.pc = "run"
  /\ IF main_loop.result = "dict"
       THEN /\ ResetRun
            /\ mode' = "console"
            /\ main_loop' = [main_loop EXCEPT !.pc = "running", !.runs = @ + 1]
       ELSE /\ main_loop' = [main_loop EXCEPT !.pc = "raised"]
            /\ UNCHANGED runVars
  /\ UNCHANGED wait_loop

\* main.py lines 11 and 16 (21 and 16): error_message = result.get("error", "")
\* and the loop test; an exception that left run_project leaves main1 too
MainAfterRun ==
  /\ mode = "console"
  /\ main_loop.pc = "running"
  /\ pc = "done"
  /\ mode' = "main"
  /\ main_loop' =
       IF rp_result.set
         THEN [main_loop EXCEPT !.error_message = rp_result.error,
                                !.pc = IF rp_result.error # "" THEN "fix" ELSE "interact"]
         ELSE [main_loop EXCEPT !.pc = "raised"]
  /\ UNCHANGED <<fileExists, dirExists, run_timeout, lineBudget, mayOpen, pc, status,
                 returncode, spawned, pipe, output_lines, mon, err_file, openPorts,
                 waited, pidx, foundOpen, server_url, last_len, new_lines, drained,
                 elapsed, result_container, web_ret, outcome, kret, ksnap, atKill,
                 afterKill, rerun, intry, cancelled, console_result, exec_result,
                 rp_result, exitAt, touched, foreign>>
  /\ UNCHANGED wait_loop

\* main.py line 17 (86): error_project(former_message, error_message)
MainFix ==
  /\ mode = "main"
  /\ main_loop.pc = "fix"
  /\ main_loop.fixes < MaxFixes
  /\ \E r \in ProjectResults :
       main_loop' = [main_loop EXCEPT !.pc = "run", !.result = r, !.fixes = @ + 1]
  /\ UNCHANGED runVars
  /\ UNCHANGED wait_loop

(* ============================ specification ============================= *)
EnvNext ==
  \/ \E p \in Procs : \E code \in {0, 1, 2} :
       (p # "root" => code = 0) /\ ProcExit(p, code)
  \/ \E c \in Procs : SpawnChild(c)

KillNext ==
  \/ KillEnum
  \/ KillChild
  \/ KillParent

\* a service run: agent.run_project with a web project
NextWeb ==
  \/ EnvNext
  \/ \E l \in Lines : WriteLine(l)
  \/ \E p \in PortSet : OpenPort(p)
  \/ MonRead
  \/ MonStop
  \/ KillNext
  \/ WebSpawn
  \/ WebPoll
  \/ ProbePort
  \/ WebSleep
  \/ WebAfter
  \/ SvcSlice
  \/ SvcLen
  \/ SvcScan
  \/ SvcPoll
  \/ SvcTimeout
  \/ \E d \in 1..MaxSleep : SvcSleep(d)
  \/ Interrupt
  \/ IntProbe
  \/ SvcInt
  \/ SvcReturn
  \/ RpCheck
  \/ RpClean
  \/ RpReturn

\* a console run: agent.run_project with a console project
NextConsole ==
  \/ EnvNext
  \/ \E c \in ErrChunks : WriteErr(c)
  \/ ConSpawn
  \/ ConPoll
  \/ ConTimeout
  \/ \E d \in 1..MaxSleep : ConSleep(d)
  \/ ConExcept
  \/ IntConsole
  \/ RpConsole

\* a call of execute_python_code
NextExec ==
  \/ EnvNext
  \/ ExecStart
  \/ \E d \in 1..MaxSleep : ExecWait(d)
  \/ ExecDone
  \/ ExecTimeout
  \/ ExecTimedOut

\* the port-probe loop of run_web_server on its own
NextWait ==
  \/ WaitExited
  \/ WaitBound
  \/ WaitTick
  \/ WaitExpire

\* main1 / main2 up to the end of the first fix loop, with console projects
NextMain ==
  \/ MainGenerate
  \/ MainRun
  \/ MainAfterRun
  \/ MainFix
  \/ NextConsole

Timeouts == 0..MaxTimeout
\* service runs whose program writes output and binds the first candidate port
SpecWeb == InitRun("web", MaxLines, {default_ports[1]}, Timeouts, {}, {"c1"}) /\ [][NextWeb]_vars
\* service runs without a run timeout whose program opens any candidate ports
SpecProbe == InitRun("web", 1, PortSet, {0}, {}, {"c1"}) /\ [][NextWeb]_vars
\* A service run whose program may start two child processes.
SpecTree ==
  InitRun("web", 1, {default_ports[1]}, {0}, {}, {"c1", "c2"}) /\ [][NextWeb]_vars
\* A service run on a machine where another program may already listen on a
\* candidate port.
SpecHeld ==
  InitRun("web", 1, {default_ports[1], default_ports[2]}, {0}, {default_ports[2]}, {"c1"})
    /\ [][NextWeb]_vars
\* A service run in which the reader thread, once started, is scheduled again
\* and again; no process is obliged to exit, to write or to open a port.
SpecMonitor ==
  /\ InitRun("web", 1, {default_ports[1]}, {0}, {}, {"c1"})
  /\ [][NextWeb]_vars
  /\ WF_vars(MonRead)
  /\ WF_vars(MonStop)
SpecConsole == InitRun("console", 0, {}, Timeouts, {}, {"c1"}) /\ [][NextConsole]_vars
SpecExec == InitRun("exec", 0, {}, Timeouts, {}, {"c1"}) /\ [][NextExec]_vars

\* run_project with a web project or with a console project
SpecRun ==
  /\ \/ InitRun("web", 1, {default_ports[1]}, Timeouts, {}, {"c1"})
     \/ InitRun("console", 0, {}, Timeouts, {}, {"c1"})
  /\ [][NextWeb \/ NextConsole]_vars

\* A session of main1 (main2) with console projects.
SpecMain == InitRun("main", 0, {}, Timeouts, {}, {"c1"}) /\ [][NextMain]_vars

\* The port-probe loop called with max_wait of 1 to MaxWait seconds.
SpecWait == InitRun("wait", 0, {}, {0}, {}, {}) /\ [][NextWait]_vars

(* ================================ claims ================================ *)
NoneAlive == \A p \in Procs : ~Alive(p)
Pos(p) == CHOOSE i \in 1..Len(default_ports) : default_ports[i] = p

\* C1: once a drain of the poll loop is complete (slice taken and cursor
\* moved), the batches drained so far, concatenated, are exactly the lines of
\* output_lines below the cursor: no line skipped, none duplicated, in order.
C1_DrainLossless ==
  pc = "s_scan" => drained = SubSeq(output_lines, 1, last_len)

\* C2: after a run that reached its run timeout has returned (console or
\* service mode), no process of the spawned tree is running.
C2_TimeoutLeavesNothingRunning ==
  (pc = "done" /\ outcome \in {"Timeout", "TimeoutStop"}) => NoneAlive

\* C3: after a failed service run has returned from run_project, no process of
\* the spawned tree is running.
C3_FailedServiceRunLeavesNothingRunning ==
  (pc = "done" /\ mode = "web" /\ rp_result.set /\ ~rp_result.success) => NoneAlive

\* C4: when run_main_web_app returns, the captured output holds a crash-marker
\* line if and only if the recorded server_error is the diagnostic tail that
\* starts at the first marker line and holds every captured line after it.
MarkerCaptured == FirstMarker(output_lines, 1) # 0
TailFromMarker ==
  /\ result_container.server_error.kind = "tail"
  /\ MarkerCaptured
  /\ result_container.server_error.tail =
       Drop(output_lines, FirstMarker(output_lines, 1) - 1)
C4_CrashMarkerIffTail ==
  (pc = "rp_check" /\ web_ret # "none") =>
     /\ MarkerCaptured <=> TailFromMarker
     /\ TailFromMarker => web_ret = "False"

\* C5: a console run whose process exited with code 0 strictly before the
\* timeout returns a result with success true and returncode 0.
C5_ExitZeroBeforeTimeoutSucceeds ==
  (pc = "done" /\ mode = "console" /\ run_timeout # 0
     /\ returncode = 0 /\ exitAt # -1 /\ exitAt < run_timeout) =>
       /\ console_result.set
       /\ console_result.success
       /\ console_result.returncode = 0

\* C6: when the entry file does not exist no child process is ever spawned.
C6_MissingFileSpawnsNothing ==
  ~fileExists => spawned = 0

\* C7: the URL reported by the port probe is http://127.0.0.1:<p> where p is a
\* candidate found open in the current poll iteration and no candidate found
\* open in that iteration comes earlier in default_ports.
C7_FirstOpenInListOrder ==
  server_url # NoUrl =>
     /\ UrlPort(server_url) \in foundOpen
     /\ server_url = Url(UrlPort(server_url))
     /\ \A q \in foundOpen : Pos(UrlPort(server_url)) <= Pos(q)
     /\ \A i \in 1..(Pos(UrlPort(server_url)) - 1) : default_ports[i] \notin foundOpen

\* C7 witness: the probe reported 8000 while a later candidate was open too;
\* the run went on to RUNNING with that URL.
C7_Witness ==
  /\ pc = "s_slice"
  /\ server_url = Url(8000)
  /\ result_container.server_url = Url(8000)
  /\ openPorts = {8000, 3000}

\* C8: whenever the port probe returns, it reports "Server exited
\* unexpectedly" exactly if the process has exited with no candidate found
\* open, and "Server did not start in time" exactly if the process is still
\* alive with no candidate found open.
ProbeReturns == pc \in {"w_poll", "w_after"} /\ pc' \in {"rp_check", "s_slice"}
C8_ProbeFailuresExact ==
  [][ProbeReturns =>
       /\ (outcome' = "NeverBound") = (~Alive("root") /\ server_url = NoUrl)
       /\ (outcome' = "StartTimeout") = (Alive("root") /\ server_url = NoUrl)]_vars

\* C9: when run_main_web_app returns through its run timeout, in a run where no
\* crash marker was captured, the process did not exit by itself and no
\* cancellation was issued, it returns True, the elapsed time exceeds the
\* timeout, and no process of the tree that was running when the termination
\* began is running any more.
C9_TimeoutStopTerminatesTree ==
  (pc = "rp_check" /\ outcome = "TimeoutStop" /\ ~cancelled
     /\ ~MarkerCaptured /\ status["root"] # "exited") =>
     /\ web_ret = "True"
     /\ elapsed > run_timeout
     /\ \A p \in atKill : ~Alive(p)

\* C10: when run_main_web_app returns after a KeyboardInterrupt in its poll
\* loop, it returns True and no process of the tree is running.
C10_CancelTerminatesTree ==
  (pc = "rp_check" /\ outcome = "Cancelled") =>
     /\ web_ret = "True"
     /\ NoneAlive

\* C11: a cancellation is delivered to the supervisor only at the top of a
\* poll tick, and a call that ends after a cancellation leaves no process of
\* the tree running.
TickTop == pc \in {"w_poll", "s_slice", "c_poll"}
C11_CancelAtTickTopTerminates ==
  [][/\ (~cancelled /\ cancelled') => TickTop
     /\ (cancelled' /\ pc' = "done") => \A p \in Procs : status'[p] # "alive"]_vars

\* C12: no fault other than a cancellation leaves a run call uncaught: every
\* run ends with a result, also when spawning the child raises an OS error.
C12_NoFaultEscapes ==
  outcome = "raised" => cancelled

\* C13: once an exception has been raised in the console poll loop, the
\* handler kills the process and returns the failure result (success false,
\* returncode None, the exception text, the stderr captured); nothing escapes.
C13_ConsoleExceptionReturned ==
  [][pc = "c_except" =>
       /\ console_result'.set
       /\ ~console_result'.success
       /\ console_result'.returncode = NoneRC
       /\ console_result'.error = "exception"
       /\ outcome' = "Exception"
       /\ status'["root"] # "alive"]_vars

\* C14: when _kill_process_tree returns, every process of the tree that was
\* running when it was entered (the root and the descendants linked to it) has
\* been sent the terminate signal or has gone by itself: none is still alive.
KillReturns == pc \in {"k_enum", "k_loop"} /\ pc' = kret
C14_TerminatorSignalsWholeTree ==
  [][(KillReturns /\ "root" \in atKill') =>
       \A p \in atKill' : status'[p] # "alive"]_vars

\* C15: _kill_process_tree is idempotent: a call that starts in the state the
\* previous call left returns with the same processes terminated as before,
\* it terminates nothing more.
Terminated(st) == {p \in Procs : st[p] = "killed"}
C15_TerminatorIdempotent ==
  [][(KillReturns /\ rerun') => Terminated(status') = Terminated(afterKill)]_vars

\* C16: _kill_process_tree signals the root only when no enumerated
\* descendant is left to be signalled, and it signals no descendant once the
\* root has been signalled.
C16_DescendantsBeforeRoot ==
  [][pc = "k_loop" =>
       /\ (status["root"] # "killed" /\ status'["root"] = "killed") => ksnap = <<>>
       /\ \A c \in Procs \ {"root"} :
            (status[c] # "killed" /\ status'[c] = "killed") => status["root"] # "killed"]_vars
C16_Witness ==
  /\ status["c1"] = "killed"
  /\ status["root"] = "killed"
  /\ "c1" \in atKill

\* C17: a service run moves only along STARTING -> RUNNING,
\* STARTING -> {NEVER_BOUND, START_TIMEOUT} and RUNNING -> {CRASHED, EXITED,
\* TIMED_OUT_STOPPED, CANCELLED_STOPPED}; RUNNING is entered with a bound URL
\* and a terminal state is never left.
Phase ==
  CASE pc = "start" -> "IDLE"
    [] outcome = "NeverBound" -> "NEVER_BOUND"
    [] outcome = "StartTimeout" -> "START_TIMEOUT"
    [] outcome = "Crash" -> "CRASHED"
    [] outcome = "UnexpectedExit" -> "EXITED"
    [] outcome = "TimeoutStop" -> "TIMED_OUT_STOPPED"
    [] outcome = "Cancelled" -> "CANCELLED_STOPPED"
    [] outcome = "none" /\ pc \in {"w_poll", "w_probe", "w_sleep", "w_after"} -> "STARTING"
    [] outcome = "none" -> "RUNNING"
    [] OTHER -> "ABORTED"
PhaseSteps ==
  ({"IDLE"} \X {"STARTING", "ABORTED"})
    \cup {<<"STARTING", "RUNNING">>}
    \cup ({"STARTING"} \X {"NEVER_BOUND", "START_TIMEOUT"})
    \cup ({"RUNNING"} \X {"CRASHED", "EXITED", "TIMED_OUT_STOPPED", "CANCELLED_STOPPED"})
C17_ServiceStateMachine ==
  [][/\ Phase' # Phase => <<Phase, Phase'>> \in PhaseSteps
     /\ Phase' = "RUNNING" => (server_url' # NoUrl /\ server_url' = Url(UrlPort(server_url')))]_vars

\* C18: the output buffer changes only by appends at its end, and the cursor
\* last_len never decreases and never exceeds the length of the buffer.
IsPrefix(a, b) == Len(a) <= Len(b) /\ SubSeq(b, 1, Len(a)) = a
C18_BufferAppendOnlyCursorMonotone ==
  [][/\ IsPrefix(output_lines, output_lines')
     /\ last_len <= last_len'
     /\ last_len' <= Len(output_lines')]_vars
C18_Witness ==
  /\ intry
  /\ last_len >= 1
  /\ Len(output_lines) > last_len

\* C19: once run_main_web_app has returned, nothing it handed to its caller
\* changes any more: neither the fields of result_container nor the captured
\* output that result_container["server_output"] shows.
C19_ResultImmutableAfterReturn ==
  [][web_ret # "none" =>
       /\ result_container' = result_container
       /\ ServerOutput(result_container)' = ServerOutput(result_container)]_vars

\* C20: while the service run is RUNNING, result_container shows the URL the
\* probe returned and its server_output is the buffer the reader thread appends
\* to.
C20_ContainerLiveWhileRunning ==
  Phase = "RUNNING" =>
    /\ server_url # NoUrl
    /\ result_container.server_url = server_url
    /\ ServerOutput(result_container) = output_lines
C20_Witness ==
  /\ Phase = "RUNNING"
  /\ last_len = 0
  /\ Len(output_lines) = MaxLines
  /\ ServerOutput(result_container) = output_lines

\* C21: the failure results of a console run are pairwise different: from a
\* failure result alone (its returncode and error) one tells whether the run
\* ended by an exit code, by the timeout or by an exception.
ConsoleKind(r) ==
  IF r.returncode # NoneRC THEN "Exited"
  ELSE IF r.error = "time out" THEN "Timeout"
  ELSE "Exception"
C21_ConsoleFailuresDistinct ==
  (console_result.set /\ ~console_result.success) =>
    outcome = ConsoleKind(console_result)
C21_Witness ==
  /\ console_result.set
  /\ outcome = "Exception"
  /\ run_timeout # 0
  /\ elapsed > run_timeout
  /\ returncode = KillRC

\* C22: the output buffer is the only object that both the reader thread and
\* the supervisor access; the reader thread is its only writer and the
\* supervisor its only reader.
By(t, o) == {a \in touched : a[1] = t /\ a[2] = o}
Shared == {o \in {a[2] : a \in touched} : By("monitor", o) # {} /\ By("supervisor", o) # {}}
BufferOneWriterOneReader ==
  \A a \in touched :
    a[2] = "output_lines" =>
      \/ a[1] = "monitor" /\ a[3] = "w"
      \/ a[1] = "supervisor" /\ a[3] = "r"
C22_BufferOnlySharedObject ==
  /\ Shared \subseteq {"output_lines"}
  /\ BufferOneWriterOneReader

\* C22 (amended): the objects both threads access are the output buffer, the
\* process handle and the console stream; the buffer has the reader thread as
\* its only writer and the supervisor as its only reader, the handle is only
\* polled or asked for its pid, and the console stream is only written.
C22_SharedObjectsExact ==
  /\ Shared \subseteq {"output_lines", "process", "console"}
  /\ BufferOneWriterOneReader
  /\ \A a \in touched : a[2] = "process" => a[3] \in {"poll", "pid"}
  /\ \A a \in touched : a[2] = "console" => a[3] = "w"
C22_Witness ==
  /\ Shared = {"output_lines", "process", "console"}
  /\ mon = "stopped"
  /\ web_ret # "none"

\* C23: the spawned process is ended by the supervisor only inside
\* _kill_process_tree: no step outside the terminator kills it.
InTerminator == pc \in {"k_enum", "k_loop"}
C23_KilledOnlyByTerminator ==
  [][(status["root"] # "killed" /\ status'["root"] = "killed") => InTerminator]_vars

\* C24: the reader thread stops only after a read that returned end-of-stream
\* (nothing is left unread) and with the process exited; nothing the process
\* wrote is dropped by the step in which the thread stops.
C24_MonitorStopsAtEndOfStream ==
  [][(mon = "running" /\ mon' # "running") =>
       /\ pipe = <<>>
       /\ pipe' = <<>>
       /\ status'["root"] # "alive"]_vars

\* C25: once the spawned service process has exited, the reader thread
\* eventually ends, whatever the descendants of the process do.
C25_MonitorEndsAfterExit ==
  (status["root"] \in {"exited", "killed"}) ~> (mon # "running")

\* C26: when the failure of a detected crash is returned, the recorded tail is
\* the drained batch from its first marker line to its end, in order, and no
\* process that was running when the terminator was called is still alive.
C26_CrashTailAndTermination ==
  [][pc = "s_ret_crash" =>
       /\ FirstMarker(new_lines, 1) # 0
       /\ result_container.server_error =
            TailErr(Drop(new_lines, FirstMarker(new_lines, 1) - 1))
       /\ \A p \in atKill : status[p] # "alive"]_vars

\* C27: the generic "Web server stopped unexpectedly" failure is returned only
\* when the process has exited and the batch of that tick holds no marker; a
\* tick whose batch holds the marker, and that is not cancelled, ends as a
\* detected crash with the tail, also when the process has exited.
GenericExit == Msg("Web server stopped unexpectedly")
C27_ScanBeforeExitCheck ==
  /\ (web_ret # "none" /\ result_container.server_error = GenericExit) =>
       /\ outcome = "UnexpectedExit"
       /\ status["root"] # "alive"
       /\ FirstMarker(new_lines, 1) = 0
  /\ (web_ret # "none" /\ ~cancelled /\ FirstMarker(new_lines, 1) # 0) =>
       /\ outcome = "Crash"
       /\ result_container.server_error.kind = "tail"
C27_Witness ==
  /\ outcome = "Crash"
  /\ FirstMarker(new_lines, 1) # 0
  /\ status["root"] = "exited"
  /\ atKill = {}

\* C28: a console tick that finds the process exited returns the exit result
\* (success iff the code is 0, the code, the contents of the stderr sink, an
\* error text iff the code is not 0), never a timeout, whatever the clock says.
C28_ExitObservedGivesExitResult ==
  [][(pc = "c_poll" /\ pc' # pc /\ ~cancelled' /\ status["root"] # "alive") =>
       /\ console_result' = ExitResult(returncode, err_file)
       /\ (console_result'.error = "") = (returncode = 0)
       /\ outcome' = "Exited"]_vars

\* C29: a console run returns the timeout failure only from a tick whose exit
\* check found the process running, with a timeout set and strictly exceeded,
\* and after the kill; the result has success false, returncode None and the
\* stderr captured so far.
C29_TimeoutOnlyWhenExceeded ==
  [][/\ (pc' = "c_timeout" /\ pc # "c_timeout") => status["root"] = "alive"
     /\ (outcome' = "Timeout" /\ outcome # "Timeout") =>
          /\ pc = "c_timeout"
          /\ run_timeout # 0
          /\ elapsed > run_timeout
          /\ status'["root"] # "alive"
          /\ console_result' = TimeoutResult(err_file)
          /\ ~console_result'.success
          /\ console_result'.returncode = NoneRC]_vars
C29_Witness ==
  /\ outcome = "Timeout"
  /\ status["root"] = "killed"
  /\ console_result.stderr # <<>>
  /\ elapsed > run_timeout

\* C30: a URL reported by the port probe names a port on which the spawned
\* process tree listens, never one held by a process outside the tree.
C30_ProbedPortBelongsToTree ==
  server_url # NoUrl => UrlPort(server_url) \notin foreign

\* C31: when run_project has returned from a web-mode run, the server process
\* is not running: it has exited or _kill_process_tree has terminated it.
C31_SessionEndsWithCall ==
  (mode = "web" /\ rp_result.set) => status["root"] \in {"exited", "killed"}

\* C32: with a run timeout set, the tick whose timeout check finds the limit
\* exceeded ends the run with a result: a console run leaves that tick with
\* its result set, a service run goes on to terminate the tree and return.
TimeoutDue == run_timeout # 0 /\ elapsed > run_timeout
C32_TimeoutTickReturnsResult ==
  [][(TimeoutDue /\ pc' # pc /\ ~cancelled') =>
       /\ (pc \in {"c_timeout", "c_except"} /\ pc' # "c_except") => console_result'.set
       /\ pc = "s_timeout" => (pc' = "k_enum" /\ kret' = "s_ret_timeout")]_vars

\* C33: in a tick of the service loop the crash scan comes first, the exit
\* check second and the timeout check last: the timeout check is reached only
\* with a batch without marker and a process found running, and only that
\* check leads to the return of True for a run stopped by the timeout.
C33_CrashExitTimeoutOrder ==
  [][/\ (pc' = "s_timeout" /\ pc # "s_timeout") =>
          /\ pc = "s_poll"
          /\ status["root"] = "alive"
          /\ FirstMarker(new_lines, 1) = 0
     /\ (kret' = "s_ret_timeout" /\ kret # "s_ret_timeout") =>
          /\ pc = "s_timeout"
          /\ TimeoutDue
     /\ (outcome' = "TimeoutStop" /\ outcome # "TimeoutStop") =>
          /\ pc = "s_ret_timeout"
          /\ web_ret' = "True"
          /\ FirstMarker(new_lines, 1) = 0]_vars
C33_Witness ==
  /\ outcome = "UnexpectedExit"
  /\ web_ret = "False"
  /\ TimeoutDue

\* C34: every iteration of the probe loop starts with the exit check: a
\* process found exited ends the probe with "Server exited unexpectedly" and
\* no port is probed in that iteration, whatever is open; ports are probed, and
\* a URL is reported, only in an iteration that found the process running.
C34_ExitCheckBeforeProbe ==
  [][/\ (pc = "w_poll" /\ pc' # pc /\ ~cancelled' /\ status["root"] # "alive") =>
          /\ result_container'.server_error = Msg("Server exited unexpectedly")
          /\ web_ret' = "False"
          /\ server_url' = NoUrl
          /\ foundOpen' = foundOpen
     /\ (pc' = "w_probe" /\ pc = "w_poll") => status["root"] = "alive"
     /\ (server_url = NoUrl /\ server_url' # NoUrl) => pc = "w_probe"]_vars
C34_Witness ==
  /\ outcome = "NeverBound"
  /\ openPorts # {}
  /\ server_url = NoUrl
  /\ web_ret = "False"

\* ceil(max_wait / poll) for a whole number of seconds and poll = 0.2
CeilWaitOverPoll(mw) == 5 * mw
\* C35: the port-probe loop performs at most ceil(max_wait / poll) iterations
\* and ends with exactly one of the three outcomes bound, exited, timeout.
C35_ProbeLoopBounded ==
  /\ wait_loop.iters <= CeilWaitOverPoll(wait_loop.max_wait)
  /\ wait_loop.outcome \in {"none", "bound", "exited", "timeout"}

\* what the underlying run call returned
UnderlyingSuccess ==
  IF mode = "web"
    THEN web_ret = "True" /\ result_container.server_error.kind = "none"
    ELSE console_result.set /\ console_result.success
\* What run_project returns agrees with the underlying call: success exactly
\* when it succeeded, and a failure carries a non-empty error.
ReturnedResultAgrees ==
  rp_result.set =>
    /\ rp_result.success <=> UnderlyingSuccess
    /\ ~UnderlyingSuccess => (~rp_result.success /\ rp_result.error # "")
    /\ rp_result.success => rp_result.error = ""
\* C36: run_project returns success True exactly when the underlying run
\* succeeded (web: run_main_web_app returned True and no server_error is
\* recorded; console: run_main_as_console_app returned success), and every
\* failed run yields a result with success False and a non-empty error.
C36_SuccessIffUnderlyingSuccess ==
  /\ ReturnedResultAgrees
  /\ (pc = "done" /\ ~cancelled /\ ~UnderlyingSuccess) =>
       (rp_result.set /\ ~rp_result.success /\ rp_result.error # "")

\* the loop of main.py lines 16-22 (85-92) has been entered and not left
InFixLoop ==
  \/ main_loop.pc = "fix"
  \/ main_loop.fixes > 0 /\ main_loop.pc \in {"run", "running"}
\* error_project is called exactly when the run before it reported an error
FixFollowsError ==
  /\ main_loop'.fixes # main_loop.fixes =>
       (rp_result.set /\ rp_result.error # "" /\ main_loop.error_message = rp_result.error)
  /\ (main_loop.pc = "running" /\ main_loop'.pc # "running" /\ rp_result.set
        /\ rp_result.error # "") => main_loop'.pc = "fix"
\* an iteration is one fix and then one run
FixThenRun ==
  /\ main_loop'.fixes # main_loop.fixes =>
       (main_loop'.fixes = main_loop.fixes + 1 /\ main_loop'.pc = "run")
  /\ (InFixLoop /\ main_loop.pc = "run" /\ main_loop'.pc # "run") =>
       (main_loop'.pc = "running" /\ main_loop'.runs = main_loop.runs + 1)
\* the loop is left only after a run that reported no error
LeftAfterCleanRun ==
  (InFixLoop /\ ~InFixLoop') => (rp_result.set /\ rp_result.error = "")
\* C37: in the fix loop of main1/main2 error_project is invoked exactly when
\* the preceding run_project result carried a non-empty error, each iteration
\* is one fix followed by one run, the loop is left only after a run that
\* reported no error, and one call of run_project starts the program once.
C37_FixLoopOrder ==
  [][FixFollowsError /\ FixThenRun /\ LeftAfterCleanRun /\ spawned' <= 1]_vars

\* C38: execute_python_code with a timeout always returns: once the timeout
\* has expired and the child is killed, the call returns the timeout failure
\* (error text, return code of the reaped child), also while descendants of
\* the child are running and hold its output pipes.
C38_TimeoutAlwaysReturns ==
  /\ pc = "e_comm2" => (status["root"] # "alive" /\ ENABLED ExecTimedOut)
  /\ (mode = "exec" /\ outcome = "Timeout") =>
       /\ exec_result.set /\ ~exec_result.success
       /\ exec_result.error = "timeout"
       /\ exec_result.returncode = returncode /\ returncode # NoneRC

====
